---- MODULE Spec2Model ----
(***************************************************************************)
(* Geocode resolution pipeline of the items API.                           *)
(*                                                                         *)
(*   SpecRetry  : GeoService.get_coordinates (app/services/geo_service.py) *)
(*                under its two decorators, handle_api_errors and          *)
(*                async_retry.                                             *)
(*   SpecCache  : GeoService.get_location_data (app/features/geo) with the *)
(*                GeoCache collection.                                     *)
(*   SpecWorker : GeoWorker (app/workers/geo_worker.py), its poll loop and *)
(*                _process_lookup.                                         *)
(*   SpecLifecycle : the same worker with resolver calls that take time.   *)
(*   SpecBus    : get_coordinates with further subscribers on the event    *)
(*                emitter, some of which raise.                            *)
(*   SpecFetch  : the three fetch implementations on one upstream answer.  *)
(*   SpecDirection : the three calculate_direction implementations.        *)
(*   SpecItems  : create_item of both item services.                       *)
(*                                                                         *)
(* Optional values (Python None / an absent dict key) are sequences of     *)
(* length 0 or 1.  Coordinates are integers in 1/10000 of a degree.        *)
(* Waits of the retry wrapper are in milliseconds, times of the worker in  *)
(* minutes.                                                                *)
(***************************************************************************)
EXTENDS Integers, Sequences, FiniteSets, TLC

VARIABLES
    \* ---- async_retry / get_coordinates ----
    retries,         \* async_retry(retries=...)
    jitter,          \* async_retry(jitter=...)
    r_pc,            \* position of the decorated call
    postcode,        \* argument of get_coordinates
    attempt,         \* loop variable of wrapper
    current_delay,   \* wrapper local, ms
    last_exception,  \* wrapper local
    responses,       \* the upstream's answer to every invocation's GET
    history,         \* outcome of every invocation of the wrapped function
    waits,           \* every asyncio.sleep(wait_time) of the wrapper, ms
    inner,           \* outcome of async_retry.wrapper
    result,          \* outcome of handle_api_errors.wrapper
    events,          \* every event_emitter.emit, in order
    handlers,        \* the subscribers of each geo.lookup topic, in
                     \* registration order: what each does when called
    handled,         \* every subscriber call made by emit, in order
    \* ---- get_location_data / GeoCache ----
    geo_cache,       \* documents of the geo_cache collection, in insertion order
    c_pc,            \* position of each caller of get_location_data
    c_postcode,      \* its argument
    c_result,        \* its outcome
    c_resp,          \* the upstream's answer to the GET of its current call
    c_calls,         \* number of get_location_data calls each caller has begun
    fetches,         \* number of upstream GETs issued, per postcode
    succeeded,       \* coordinates returned by finished calls, per postcode
    c_now,           \* datetime.utcnow() of the cache, in ticks
    \* ---- GeoWorker ----
    running,         \* GeoWorker.running
    w_pc,            \* position of the start() coroutine
    w_idx,           \* position of process_pending_lookups in its batch
    queue,           \* the list _get_mock_retry_items gives; its items are
                     \* the dicts _process_lookup mutates in place
    now,             \* datetime.utcnow() of the worker, minutes
    resolver_calls,  \* GeoService.get_coordinates calls, per queue position
    w_done,          \* the last _process_lookup call: its queue position,
                     \* whether it awaited get_coordinates and what that gave,
                     \* the arguments it awaited update_geo_data with and
                     \* what that gave
    stop_at,         \* the time of the stop() that ended `running` while
                     \* the loop is alive
    stop_calls,      \* stop() calls since the last other operation (0, 1,
                     \* 2 for two or more)
    \* ---- the fetch implementations ----
    f_resp,          \* the upstream's answer
    f_postcode,      \* the postcode asked for
    f_out,           \* what each implementation gave for it
    \* ---- calculate_direction ----
    d_latitude,      \* arguments
    d_longitude,
    d_out,           \* what each implementation returned
    \* ---- create_item ----
    items,           \* the items collection, in insertion order
    i_last,          \* the last create_item call that ended: the service,
                     \* the upstream's answer to its lookup and its outcome
    i_source,        \* per item, the lookup its stored geo fields were
                     \* written from: the postcode resolved and the data
    i_pending,       \* the create_item and update_item calls that await
                     \* their lookup, each with the item object it holds
    i_created,       \* number of create_item calls begun
    \* ---- the start() coroutines of one GeoWorker, and the application ----
    loops,           \* every start() coroutine begun on the worker: its
                     \* position, the number of iterations it has begun,
                     \* whether its last process_pending_lookups raised, the
                     \* argument of its last asyncio.sleep, and whether
                     \* stop() was called while it was alive
    worker_task,     \* main.worker_task: the coroutine startup_event began
    shutdown         \* shutdown_event: its position, the task it awaits,
                     \* the seconds wait_for took and its outcome

retryVars == <<retries, jitter, r_pc, postcode, attempt, current_delay,
               last_exception, responses, history, waits, inner, result, events,
               handlers, handled>>

cacheVars == <<geo_cache, c_pc, c_postcode, c_result, c_resp, c_calls, fetches,
               succeeded, c_now>>

workerVars == <<running, w_pc, w_idx, queue, now, resolver_calls, w_done,
                stop_at, stop_calls>>

fetchVars == <<f_resp, f_postcode, f_out>>

directionVars == <<d_latitude, d_longitude, d_out>>

itemVars == <<items, i_last, i_source, i_pending, i_created>>

loopVars == <<loops, worker_task, shutdown>>

vars == <<retryVars, cacheVars, workerVars, fetchVars, directionVars, itemVars,
          loopVars>>

\* ------------------------------------------------------------------------
\* Bounds and sample inputs
\* ------------------------------------------------------------------------
Postcodes == {"10001", "00000"}

Callers == 1 .. 2

MaxCalls == 3

\* the worker's clock stops here
MaxTime == 5

\* items created in a run
MaxItems == 2

\* create_item and update_item calls awaiting their lookup at one time
MaxPending == 2

\* start() coroutines begun on one worker in a run
MaxLoops == 2

\* iterations one start() coroutine begins in a run
MaxIterations == 2

\* random.random() is in [0, 1): samples of (0.5 + random.random()), permille
JitterSamples == {500, 1000, 1499}

\* ------------------------------------------------------------------------
\* Program constants
\* ------------------------------------------------------------------------
NY_LATITUDE == 407506
NY_LONGITUDE == -739971
GeoRetries == 3
GeoDelay == 1000
GeoBackoffFactor == 2
PollingInterval == 1
MaxQueuedRetries == 5
NoDataDelay == 30
ApiErrorDelay == 60
UnexpectedDelay == 15
NEW_YORK_LAT == 407506
NEW_YORK_LON == -739971

None == <<>>
Some(x) == <<x>>

\* ------------------------------------------------------------------------
\* httpx exception hierarchy (the part the decorators distinguish)
\* ------------------------------------------------------------------------
Bases(type) ==
    CASE type = "ConnectError"    -> {"ConnectError", "TransportError", "RequestError", "Exception"}
      [] type = "ReadTimeout"     -> {"ReadTimeout", "TimeoutException", "TransportError",
                                      "RequestError", "Exception"}
      [] type = "DecodingError"   -> {"DecodingError", "RequestError", "Exception"}
      [] type = "HTTPStatusError" -> {"HTTPStatusError", "Exception"}
      [] type = "TypeError"       -> {"TypeError", "Exception"}
      [] type = "ApiError"        -> {"ApiError", "Exception"}
      [] OTHER                    -> {type, "Exception"}

IsInstance(exc, classes) == Bases(exc.type) \cap classes # {}

\* exceptions=[httpx.TransportError, httpx.TimeoutException]
GeoRetryExceptions == {"TransportError", "TimeoutException"}

\* ------------------------------------------------------------------------
\* The upstream's answers to one GET
\* ------------------------------------------------------------------------
Place(lat, lon) == [latitude |-> Some(<<"str", lat>>), longitude |-> Some(<<"str", lon>>)]

Places ==
    { Place(NY_LATITUDE, NY_LONGITUDE),
      Place(NY_LATITUDE + 1, NY_LONGITUDE - 1),
      Place(NY_LATITUDE - 1, NY_LONGITUDE + 1) }

StatusCodes == {404, 429, 500}

NetworkFailures == {"ConnectError", "ReadTimeout", "DecodingError"}

\* `places` is the key of the JSON body: absent (None), or a list
UpstreamResponses ==
    [kind : NetworkFailures, status : {0}, places : {None}]
    \cup [kind : {"response"}, status : StatusCodes, places : {None}]
    \cup [kind : {"response"}, status : {200}, places : {None, Some(<<>>)}]
    \cup [kind : {"response"}, status : {200}, places : {Some(<<p>>) : p \in Places}]
    \cup [kind : {"response"}, status : {200},
          places : {Some(<<[latitude |-> None,
                            longitude |-> Some(<<"str", NY_LONGITUDE>>)]>>)}]

\* data.get("places", default)
get_places(resp, default) == IF resp.places = None THEN default ELSE resp.places[1]

\* float(x): the number a string holds; float(None) raises TypeError
FloatOk(x) == x # None
Float(x) == x[1][2]

\* ------------------------------------------------------------------------
\* GeoService.calculate_direction
\* ------------------------------------------------------------------------
calculate_direction(latitude, longitude) ==
    LET is_north == latitude >= NY_LATITUDE
        is_east == longitude >= NY_LONGITUDE
    IN  IF is_north /\ is_east THEN "NE"
        ELSE IF is_north /\ ~is_east THEN "NW"
        ELSE IF ~is_north /\ is_east THEN "SE"
        ELSE "SW"

\* ------------------------------------------------------------------------
\* Outcomes of a call: a returned value or a raised exception
\* ------------------------------------------------------------------------
Return(v) == [kind |-> "return", value |-> v, exc |-> None]
Raise(e) == [kind |-> "raise", value |-> None, exc |-> Some(e)]
Pending == [kind |-> "pending", value |-> None, exc |-> None]

Exc(type, call, status) == [type |-> type, call |-> call, status |-> status, original |-> ""]

\* ApiError(..., status_code=..., original_exception=e)
ApiError(e, status_code) ==
    [type |-> "ApiError", call |-> e.call, status |-> status_code, original |-> e.type]

Event(name, args) == [name |-> name, args |-> args]

request_failed_publishing(resp, call) ==
    [out |-> Raise(Exc(resp.kind, call, 0)),
     emits |-> <<Event("geo.lookup.error", <<"", resp.kind>>)>>]

\* response = await client.send(request) fails: httpx raises
request_failed(resp, call) ==
    [out |-> Raise(Exc(resp.kind, call, 0)), emits |-> <<>>]

no_places_raising(pc) ==
    [out |-> Raise(Exc("NoDataError", 0, 0)),
     emits |-> <<Event("geo.lookup.error", <<pc, "No location data found">>)>>]

\* if not places: emit geo.lookup.error, return None
no_places(pc) ==
    [out |-> Return(None),
     emits |-> <<Event("geo.lookup.error", <<pc, "No location data found">>)>>]

\* Body of get_coordinates for one upstream answer; `call` numbers the
\* invocation.  Gives the outcome and the events emitted by the body.
get_coordinates_body(pc, resp, call) ==
    IF resp.kind # "response"
    THEN request_failed(resp, call)
    ELSE IF resp.status < 200 \/ resp.status > 299
    THEN [out |-> Raise(Exc("HTTPStatusError", call, resp.status)), emits |-> <<>>]
    ELSE IF get_places(resp, <<>>) = <<>>
    THEN no_places(pc)
    ELSE LET place == get_places(resp, <<>>)[1]
         IN  IF ~FloatOk(place.latitude) \/ ~FloatOk(place.longitude)
             THEN [out |-> Raise(Exc("TypeError", call, 0)), emits |-> <<>>]
             ELSE LET latitude == Float(place.latitude)
                      longitude == Float(place.longitude)
                      res == [latitude |-> latitude, longitude |-> longitude,
                              direction_from_new_york |->
                                  calculate_direction(latitude, longitude)]
                  IN  [out |-> Return(Some(res)),
                       emits |-> <<Event("geo.lookup.success", <<pc, res>>)>>]

\* ------------------------------------------------------------------------
\* event_emitter (pyee EventEmitter): emit calls the subscribers of the
\* topic one after the other, in the caller's frame
\* ------------------------------------------------------------------------
GeoTopics == {"geo.lookup.success", "geo.lookup.error"}

\* The subscribers app/core/events.py registers: one per topic, it logs
RepositoryHandlers == [name \in GeoTopics |-> <<"returns">>]

\* The same with one more subscriber that raises, registered after or
\* before the repository's
HandlerSets ==
    [GeoTopics -> {<<"returns">>, <<"returns", "raises">>, <<"raises", "returns">>}]

\* event_emitter.emit(ev): the subscriber calls it makes, and whether one
\* of them raised (the calls after it are then not made)
emit(hs, ev) ==
    LET subs == hs[ev.name]
        failing == {i \in 1 .. Len(subs) : subs[i] = "raises"}
        last == IF failing = {} THEN Len(subs)
                ELSE CHOOSE i \in failing : \A j \in failing : i <= j
    IN  [calls |-> [i \in 1 .. last |-> <<ev.name, i>>], raised |-> failing # {}]

\* The body of get_coordinates with its emit calls made: an exception of a
\* subscriber is raised by the emit line of the body
get_coordinates_emitting(hs, pc, resp, call) ==
    LET b == get_coordinates_body(pc, resp, call)
    IN  IF b.emits = <<>>
        THEN [out |-> b.out, emits |-> b.emits, calls |-> <<>>]
        ELSE LET e == emit(hs, b.emits[1])
             IN  [out |-> IF e.raised THEN Raise(Exc("SubscriberError", call, 0))
                          ELSE b.out,
                  emits |-> b.emits,
                  calls |-> e.calls]

\* ------------------------------------------------------------------------
\* async_retry.wrapper
\* ------------------------------------------------------------------------
\* range(retries + 1)
AttemptRange_short(n) == 0 .. (n - 1)

AttemptRange(n) == 0 .. n

\* except tuple(exceptions) as e
Catches_any(e, exceptions) == TRUE

Catches_status(e, exceptions) == IsInstance(e, exceptions \cup {"HTTPStatusError"})

Catches(e, exceptions) == IsInstance(e, exceptions)

\* if attempt == retries: raise
IsLastAttempt(a, n) == a = n

WaitTime_always_jittered(delay, withJitter, sample) == (delay * sample) \div 1000

\* wait_time = current_delay, times (0.5 + random.random()) with jitter
WaitTime(delay, withJitter, sample) ==
    IF withJitter THEN (delay * sample) \div 1000 ELSE delay

\* ------------------------------------------------------------------------
\* handle_api_errors("geo_lookup").wrapper: what the caller of
\* get_coordinates gets for an outcome of the retry wrapper, and the event
\* emitted on the way.
\* ------------------------------------------------------------------------
handle_api_errors_silent(out) ==
    IF out.kind # "raise"
    THEN [out |-> out, emits |-> <<>>]
    ELSE [out |-> Raise(ApiError(out.exc[1], out.exc[1].status)), emits |-> <<>>]

handle_api_errors(out) ==
    IF out.kind # "raise"
    THEN [out |-> out, emits |-> <<>>]
    ELSE LET e == out.exc[1]
         IN  IF IsInstance(e, {"HTTPStatusError"})
             THEN [out |-> Raise(ApiError(e, e.status)),
                   emits |-> <<Event("api.geo_lookup.error", <<e.status, e.type>>)>>]
             ELSE IF IsInstance(e, {"RequestError"})
             THEN [out |-> Raise(ApiError(e, 0)),
                   emits |-> <<Event("api.geo_lookup.connection_error", <<e.type>>)>>]
             ELSE [out |-> Raise(ApiError(e, 0)),
                   emits |-> <<Event("api.geo_lookup.unexpected_error", <<e.type>>)>>]

\* ------------------------------------------------------------------------
\* Actions of the decorated get_coordinates
\* ------------------------------------------------------------------------
\* The wrapper ends with outcome `out`; `emitted` are the events of the body.
Finish(out, emitted) ==
    LET h == handle_api_errors(out)
    IN  /\ inner' = out
        /\ result' = h.out
        /\ events' = events \o emitted \o h.emits
        /\ r_pc' = "done"

\* await GeoService.get_coordinates(p): entry into both wrappers
Call(p) ==
    /\ r_pc = "idle"
    /\ postcode' = p
    /\ attempt' = 0
    /\ current_delay' = GeoDelay
    /\ last_exception' = None
    /\ r_pc' = "attempt"
    /\ UNCHANGED <<retries, jitter, responses, history, waits, inner, result, events,
                   handlers, handled>>

\* One iteration of the for loop: func is invoked, the upstream answers
\* `resp`; `sample` is the jitter drawn if the wrapper decides to wait.
Attempt(resp, sample) ==
    /\ r_pc = "attempt"
    /\ LET b == get_coordinates_emitting(handlers, postcode, resp, Len(history) + 1)
       IN  /\ responses' = Append(responses, resp)
           /\ history' = Append(history, b.out)
           /\ handled' = handled \o b.calls
           /\ IF b.out.kind = "return"
              THEN /\ Finish(b.out, b.emits)
                   /\ UNCHANGED <<last_exception, waits>>
              ELSE LET e == b.out.exc[1]
                   IN  IF ~Catches(e, GeoRetryExceptions)
                       THEN /\ Finish(b.out, b.emits)
                            /\ UNCHANGED <<last_exception, waits>>
                       ELSE /\ last_exception' = Some(e)
                            /\ IF IsLastAttempt(attempt, retries)
                               THEN /\ Finish(b.out, b.emits)
                                    /\ UNCHANGED waits
                               ELSE /\ waits' = Append(waits,
                                                 WaitTime(current_delay, jitter, sample))
                                    /\ r_pc' = "sleep"
                                    /\ events' = events \o b.emits
                                    /\ UNCHANGED <<inner, result>>
    /\ UNCHANGED <<retries, jitter, postcode, attempt, current_delay, handlers>>

\* asyncio.sleep(wait_time) returns; current_delay *= backoff_factor; the
\* loop goes to its next iteration, or ends (the wrapper then returns None).
Wake ==
    /\ r_pc = "sleep"
    /\ current_delay' = current_delay * GeoBackoffFactor
    /\ IF attempt + 1 \in AttemptRange(retries)
       THEN /\ attempt' = attempt + 1
            /\ r_pc' = "attempt"
            /\ UNCHANGED <<inner, result, events>>
       ELSE /\ Finish(Return(None), <<>>)
            /\ UNCHANGED attempt
    /\ UNCHANGED <<retries, jitter, postcode, last_exception, responses, history, waits,
                   handlers, handled>>

\* ------------------------------------------------------------------------
\* GeoCache and features/geo GeoService.get_location_data
\* ------------------------------------------------------------------------
\* GeoCache.objects(postcode=postcode).first()
cache_first_miss(coll, pc) == None

cache_first(coll, pc) ==
    LET hits == {i \in 1 .. Len(coll) : coll[i].postcode = pc}
    IN  IF hits = {} THEN None
        ELSE Some(coll[CHOOSE i \in hits : \A j \in hits : i <= j])

\* GeoCache(postcode=..., latitude=..., longitude=...) with its defaults,
\* then save(): updated_at = utcnow()
GeoCacheDoc(pc, latitude, longitude, t) ==
    [postcode |-> pc, latitude |-> latitude, longitude |-> longitude,
     created_at |-> t, updated_at |-> t]

save_rejected_never(coll, doc) == FALSE

\* save() of a new document: the unique index on postcode rejects a second one
save_rejected(coll, doc) == \E i \in 1 .. Len(coll) : coll[i].postcode = doc.postcode

fetch_from_api_defaulting(resp) ==
    IF resp.kind # "response"
    THEN Raise(Exc("ExternalServiceError", 0, 0))
    ELSE IF resp.status # 200
    THEN Raise(Exc("ExternalServiceError", 0, resp.status))
    ELSE LET place == get_places(resp, <<[latitude |-> None, longitude |-> None]>>)[1]
             latitude == IF place.latitude = None THEN 0 ELSE Float(place.latitude)
             longitude == IF place.longitude = None THEN 0 ELSE Float(place.longitude)
         IN  Return(Some(<<latitude, longitude>>))

\* GeoService._fetch_from_api for one upstream answer
fetch_from_api(resp) ==
    IF resp.kind # "response"
    THEN Raise(Exc("ExternalServiceError", 0, 0))
    ELSE IF resp.status # 200
    THEN Raise(Exc("ExternalServiceError", 0, resp.status))
    ELSE IF get_places(resp, <<>>) = <<>>
    THEN Raise(Exc("ExternalServiceError", 0, 0))
    ELSE LET place == get_places(resp, <<>>)[1]
             latitude == IF place.latitude = None THEN 0 ELSE Float(place.latitude)
             longitude == IF place.longitude = None THEN 0 ELSE Float(place.longitude)
         IN  Return(Some(<<latitude, longitude>>))

Coordinates(latitude, longitude) == [latitude |-> latitude, longitude |-> longitude]

RECURSIVE SumOver(_, _)
SumOver(f, S) ==
    IF S = {} THEN 0
    ELSE LET x == CHOOSE y \in S : TRUE IN f[x] + SumOver(f, S \ {x})

TotalCalls == SumOver(c_calls, Callers)

\* get_location_data(pc) up to its first await: the cache lookup, and on a
\* miss the GET of _fetch_from_api is issued.
Resolve(c, pc) ==
    /\ c_pc[c] \in {"idle", "done"}
    /\ TotalCalls < MaxCalls
    /\ c_calls' = [c_calls EXCEPT ![c] = @ + 1]
    /\ c_postcode' = [c_postcode EXCEPT ![c] = pc]
    /\ c_now' = c_now + 1
    /\ c_resp' = [c_resp EXCEPT ![c] = None]
    /\ LET cached == cache_first(geo_cache, pc)
       IN  IF cached # None
           THEN LET out == Coordinates(cached[1].latitude, cached[1].longitude)
                IN  /\ c_result' = [c_result EXCEPT ![c] = Return(Some(out))]
                    /\ c_pc' = [c_pc EXCEPT ![c] = "done"]
                    /\ succeeded' = [succeeded EXCEPT ![pc] = @ \cup {out}]
                    /\ UNCHANGED fetches
           ELSE /\ c_result' = [c_result EXCEPT ![c] = Pending]
                /\ c_pc' = [c_pc EXCEPT ![c] = "fetching"]
                /\ fetches' = [fetches EXCEPT ![pc] = @ + 1]
                /\ UNCHANGED succeeded
    /\ UNCHANGED geo_cache

\* The upstream answers the GET of caller c: the rest of _fetch_from_api
\* and of get_location_data (cache write, return or raise).
FetchDone(c, resp) ==
    /\ c_pc[c] = "fetching"
    /\ c_pc' = [c_pc EXCEPT ![c] = "done"]
    /\ c_resp' = [c_resp EXCEPT ![c] = Some(resp)]
    /\ LET f == fetch_from_api(resp)
           pc == c_postcode[c]
       IN  IF f.kind = "raise"
           THEN /\ c_result' = [c_result EXCEPT ![c] = f]
                /\ UNCHANGED <<geo_cache, succeeded>>
           ELSE LET doc == GeoCacheDoc(pc, f.value[1][1], f.value[1][2], c_now)
                    out == Coordinates(f.value[1][1], f.value[1][2])
                IN  IF save_rejected(geo_cache, doc)
                    THEN /\ c_result' = [c_result EXCEPT
                                            ![c] = Raise(Exc("NotUniqueError", 0, 0))]
                         /\ UNCHANGED <<geo_cache, succeeded>>
                    ELSE /\ geo_cache' = Append(geo_cache, doc)
                         /\ c_result' = [c_result EXCEPT ![c] = Return(Some(out))]
                         /\ succeeded' = [succeeded EXCEPT ![pc] = @ \cup {out}]
    /\ UNCHANGED <<c_postcode, c_calls, fetches, c_now>>

\* ------------------------------------------------------------------------
\* GeoWorker
\* ------------------------------------------------------------------------
\* A queue item as the retry queue would hold it: a dict with postcode,
\* item_id and retry_count; last_error and next_retry are absent keys until
\* _process_lookup sets them.
QueueItem(pc, item_id) ==
    [postcode |-> pc, item_id |-> item_id, retry_count |-> 0,
     last_error |-> None, next_retry |-> None]

\* The queues the worker is run against: the module's own empty list, and
\* lists of items with and without an item_id
InitialQueues ==
    { <<>>,
      <<QueueItem("10001", Some("item1"))>>,
      <<QueueItem("00000", None)>>,
      <<QueueItem("10001", Some("item1")), QueueItem("00000", None)>> }

QueuePositions == 1 .. 2

\* datetime.isoformat(): the text of a time, and the time such a text holds
isoformat(t) == <<"iso", t>>

fromisoformat(x) == x[2]

\* str(e) of the exception _process_lookup caught
Str(e) == <<"str", e.type, e.original, e.status>>

\* What GeoService.get_coordinates gives the worker when the upstream's
\* final answer is resp
ResolverOutcome(pc, resp) == handle_api_errors(get_coordinates_body(pc, resp, 1).out).out

\* The upstream's final answers the worker is run against
WorkerResponses ==
    {resp \in UpstreamResponses :
        \/ resp.kind = "response" /\ resp.status = 500
        \/ resp.kind = "response" /\ resp.status = 200 /\ resp.places = Some(<<>>)
        \/ resp.kind = "response" /\ resp.status = 200
              /\ resp.places = Some(<<Place(NY_LATITUDE, NY_LONGITUDE)>>)}

ResolverOutcomes(pc) ==
    {ResolverOutcome(pc, resp) : resp \in WorkerResponses}

\* ItemRepository.update_geo_data returns, or re-raises a database error
UpdateOutcomes == {Return(None), Raise(Exc("Exception", 0, 0))}

\* The time one awaited get_coordinates call takes, in polling intervals:
\* next to none, or a whole one (four attempts of up to 10 s per phase of
\* the request, and the waits between them)
ResolveDurations == {0, 1}

\* if retry_count >= 5: give up
max_retries_exceeded(retry_count) == retry_count >= MaxQueuedRetries

\* the branch `if not geo_data` (lines 92-100)
no_geo_data_keeps_count(item, t) ==
    [item EXCEPT !.next_retry = Some(isoformat(t + NoDataDelay))]

no_geo_data(item, t) ==
    [item EXCEPT !.retry_count = item.retry_count + 1,
                 !.next_retry = Some(isoformat(t + NoDataDelay))]

on_api_error_short(item, e, t) ==
    [item EXCEPT !.retry_count = item.retry_count + 1,
                 !.last_error = Some(Str(e)),
                 !.next_retry = Some(isoformat(t + UnexpectedDelay))]

\* except ApiError as e (lines 114-122)
on_api_error(item, e, t) ==
    [item EXCEPT !.retry_count = item.retry_count + 1,
                 !.last_error = Some(Str(e)),
                 !.next_retry = Some(isoformat(t + ApiErrorDelay))]

on_unexpected_error_uncounted(item, e, t) ==
    [item EXCEPT !.last_error = Some(Str(e)),
                 !.next_retry = Some(isoformat(t + UnexpectedDelay))]

\* except Exception as e (lines 124-132)
on_unexpected_error(item, e, t) ==
    [item EXCEPT !.retry_count = item.retry_count + 1,
                 !.last_error = Some(Str(e)),
                 !.next_retry = Some(isoformat(t + UnexpectedDelay))]

\* The item after _process_lookup, for the resolver's and the repository's
\* outcomes (the repository is reached only with data and an item_id)
process_lookup_item(item, r, u, t) ==
    IF max_retries_exceeded(item.retry_count) THEN item
    ELSE IF r.kind = "raise"
    THEN IF IsInstance(r.exc[1], {"ApiError"})
         THEN on_api_error(item, r.exc[1], t)
         ELSE on_unexpected_error(item, r.exc[1], t)
    ELSE IF r.value = None
    THEN no_geo_data(item, t)
    ELSE IF item.item_id # None /\ u.kind = "raise"
    THEN on_unexpected_error(item, u.exc[1], t)
    ELSE item

ResolverInvoked(item) == ~max_retries_exceeded(item.retry_count)

UpdateInvoked_never(item, r) == FALSE

UpdateInvoked(item, r) ==
    /\ ResolverInvoked(item)
    /\ r.kind = "return"
    /\ r.value # None
    /\ item.item_id # None

\* The exception raised inside the try block of _process_lookup, if any
raised_in_try(item, r, u) ==
    IF ~ResolverInvoked(item) THEN None
    ELSE IF r.kind = "raise" THEN r.exc
    ELSE IF UpdateInvoked(item, r) /\ u.kind = "raise" THEN u.exc
    ELSE None

caught_api_only(e) == IsInstance(e, {"ApiError"})

\* except ApiError ... except Exception: the exceptions _process_lookup
\* handles itself
caught(e) == IsInstance(e, {"ApiError"}) \/ IsInstance(e, {"Exception"})

\* The exception leaves _process_lookup and process_pending_lookups
escapes(item, r, u) ==
    LET e == raised_in_try(item, r, u)
    IN  e # None /\ ~caught(e[1])

\* for item in mock_items: the items an iteration of the poll loop takes up
pending_items(q, t) == 1 .. Len(q)

\* process_pending_lookups begins: with no items it returns and the loop
\* sleeps, otherwise it takes up the first item
BeginIteration ==
    IF pending_items(queue, now) = {}
    THEN w_pc' = "sleeping" /\ w_idx' = 0
    ELSE w_pc' = "processing" /\ w_idx' = 1

\* geo_worker.start(): running = True and the first iteration begins
Start ==
    /\ w_pc \in {"init", "exited"}
    /\ running' = TRUE
    /\ BeginIteration
    /\ stop_at' = None
    /\ stop_calls' = 0
    /\ UNCHANGED <<queue, now, resolver_calls, w_done>>

Stop_toggling ==
    /\ running' = ~running
    /\ stop_at' = IF running /\ w_pc \in {"processing", "sleeping"}
                  THEN Some(now) ELSE stop_at
    /\ stop_calls' = IF stop_calls < 2 THEN stop_calls + 1 ELSE 2
    /\ UNCHANGED <<w_pc, w_idx, queue, now, resolver_calls, w_done>>

\* geo_worker.stop()
Stop ==
    /\ running' = FALSE
    /\ stop_at' = IF running /\ w_pc \in {"processing", "sleeping"}
                  THEN Some(now) ELSE stop_at
    /\ stop_calls' = IF stop_calls < 2 THEN stop_calls + 1 ELSE 2
    /\ UNCHANGED <<w_pc, w_idx, queue, now, resolver_calls, w_done>>

\* _process_lookup(queue_item) for the item at w_idx; r is what the
\* resolver gives after d polling intervals, u what the repository gives if
\* it is called.  An exception that leaves _process_lookup ends the batch:
\* start() logs it and sleeps.
ProcessLookup(r, u, d) ==
    /\ w_pc = "processing"
    /\ now + d <= MaxTime
    /\ d > 0 => ResolverInvoked(queue[w_idx])
    /\ now' = now + d
    /\ stop_calls' = 0
    /\ LET item == queue[w_idx]
       IN  /\ queue' = IF escapes(item, r, u) THEN queue
                       ELSE [queue EXCEPT
                                ![w_idx] = process_lookup_item(item, r, u, now')]
           /\ IF escapes(item, r, u)
              THEN w_idx' = 0 /\ w_pc' = "sleeping"
              ELSE IF w_idx + 1 \in pending_items(queue, now')
              THEN w_idx' = w_idx + 1 /\ w_pc' = "processing"
              ELSE w_idx' = 0 /\ w_pc' = "sleeping"
           /\ resolver_calls' =
                  IF ResolverInvoked(item)
                  THEN [resolver_calls EXCEPT ![w_idx] = @ + 1] ELSE resolver_calls
           /\ w_done' = [idx |-> w_idx,
                         resolved |-> ResolverInvoked(item),
                         r |-> IF ResolverInvoked(item) THEN r ELSE Pending,
                         updated |-> IF UpdateInvoked(item, r)
                                     THEN Some([item_id |-> item.item_id[1],
                                                geo_data |-> r.value[1]])
                                     ELSE None,
                         u |-> IF UpdateInvoked(item, r) THEN u ELSE Pending]
    /\ UNCHANGED <<running, stop_at>>

\* asyncio.sleep(polling_interval) returns: `while self.running` is tested
Wake_loop ==
    /\ w_pc = "sleeping"
    /\ now < MaxTime
    /\ now' = now + PollingInterval
    /\ IF running
       THEN IF pending_items(queue, now') = {}
            THEN w_pc' = "sleeping" /\ w_idx' = 0
            ELSE w_pc' = "processing" /\ w_idx' = 1
       ELSE w_pc' = "exited" /\ w_idx' = 0
    /\ stop_at' = IF running THEN stop_at ELSE None
    /\ stop_calls' = 0
    /\ UNCHANGED <<running, queue, resolver_calls, w_done>>

\* ------------------------------------------------------------------------
\* calculate_direction of app/features/geo and app/features/items
\* ------------------------------------------------------------------------
calculate_direction_geo_strict(latitude, longitude) ==
    LET is_north == latitude > NEW_YORK_LAT
        is_east == longitude > NEW_YORK_LON
    IN  IF is_north /\ is_east THEN "NE"
        ELSE IF is_north /\ ~is_east THEN "NW"
        ELSE IF ~is_north /\ is_east THEN "SE"
        ELSE "SW"

\* app/features/geo/service.py GeoService.calculate_direction
calculate_direction_geo(latitude, longitude) ==
    LET is_north == latitude >= NEW_YORK_LAT
        is_east == longitude >= NEW_YORK_LON
    IN  IF is_north /\ is_east THEN "NE"
        ELSE IF is_north /\ ~is_east THEN "NW"
        ELSE IF ~is_north /\ is_east THEN "SE"
        ELSE "SW"

\* app/features/items/service.py DefaultGeoLocationService.calculate_direction
calculate_direction_items(latitude, longitude) ==
    LET is_north == latitude >= NEW_YORK_LAT
        is_east == longitude >= NEW_YORK_LON
    IN  IF is_north /\ is_east THEN "NE"
        ELSE IF is_north /\ ~is_east THEN "NW"
        ELSE IF ~is_north /\ is_east THEN "SE"
        ELSE "SW"

DirectionImplementations == {"services.geo_service", "features.geo", "features.items"}

direction_with(impl, latitude, longitude) ==
    CASE impl = "services.geo_service" -> calculate_direction(latitude, longitude)
      [] impl = "features.geo" -> calculate_direction_geo(latitude, longitude)
      [] impl = "features.items" -> calculate_direction_items(latitude, longitude)

\* Arguments on, next to and far from the reference point
DirectionLatitudes ==
    {NY_LATITUDE - 10000, NY_LATITUDE - 1, NY_LATITUDE, NY_LATITUDE + 1,
     NY_LATITUDE + 10000}

DirectionLongitudes ==
    {NY_LONGITUDE - 10000, NY_LONGITUDE - 1, NY_LONGITUDE, NY_LONGITUDE + 1,
     NY_LONGITUDE + 10000}

\* calculate_direction(d_latitude, d_longitude) of one implementation
Direct(impl) ==
    /\ d_out[impl] = None
    /\ d_out' = [d_out EXCEPT
                    ![impl] = Some(direction_with(impl, d_latitude, d_longitude))]
    /\ UNCHANGED <<d_latitude, d_longitude>>

\* ------------------------------------------------------------------------
\* The fetch implementations
\* ------------------------------------------------------------------------
\* DefaultGeoLocationService.get_location_data for one upstream answer:
\* data.get("places", [{}])[0].get("latitude", 0)
default_get_location_data(resp) ==
    IF resp.kind # "response"
    THEN Raise(Exc("ExternalServiceError", 0, 0))
    ELSE IF resp.status # 200
    THEN Raise(Exc("ExternalServiceError", 0, resp.status))
    ELSE LET places == get_places(resp, <<[latitude |-> None, longitude |-> None]>>)
         IN  IF places = <<>>
             THEN Raise(Exc("IndexError", 0, 0))
             ELSE LET place == places[1]
                      latitude == IF place.latitude = None THEN 0
                                  ELSE Float(place.latitude)
                      longitude == IF place.longitude = None THEN 0
                                   ELSE Float(place.longitude)
                  IN  Return(Some([latitude |-> latitude, longitude |-> longitude,
                                   direction_from_new_york |->
                                       calculate_direction_items(latitude, longitude)]))

FetchImplementations ==
    {"GeoService.get_coordinates", "GeoService._fetch_from_api",
     "DefaultGeoLocationService.get_location_data"}

fetch_with(impl, pc, resp) ==
    CASE impl = "GeoService.get_coordinates" -> ResolverOutcome(pc, resp)
      [] impl = "GeoService._fetch_from_api" -> fetch_from_api(resp)
      [] impl = "DefaultGeoLocationService.get_location_data"
            -> default_get_location_data(resp)

\* The answers of an upstream that answers
FetchResponses == {resp \in UpstreamResponses : resp.kind = "response"}

\* One implementation is run against the answer
Fetch(impl) ==
    /\ f_out[impl] = Pending
    /\ f_out' = [f_out EXCEPT ![impl] = fetch_with(impl, f_postcode, f_resp)]
    /\ UNCHANGED <<f_resp, f_postcode>>

\* ------------------------------------------------------------------------
\* create_item of app/services/item_service.py and app/features/items
\* ------------------------------------------------------------------------
\* str(item.id) of the n-th item created
ItemId(n) == <<"item", n>>

\* A stored item: the geo fields are unset until a lookup fills them
NewItem(id, pc) ==
    [id |-> id, postcode |-> pc, latitude |-> None, longitude |-> None,
     direction_from_new_york |-> None]

\* ItemRepository.update_geo_data / item_data.update(geo_data)
with_geo_data(item, g) ==
    [item EXCEPT !.latitude = Some(g.latitude),
                 !.longitude = Some(g.longitude),
                 !.direction_from_new_york = Some(g.direction_from_new_york)]

\* The position of the document with this id in a collection, 0 when
\* there is none (Item.objects(id=...).first() is None)
find_item(coll, id) ==
    IF \E k \in 1 .. Len(coll) : coll[k].id = id
    THEN CHOOSE k \in 1 .. Len(coll) : coll[k].id = id
    ELSE 0

\* The sequence without its k-th element
Without(seq, k) == SubSeq(seq, 1, k - 1) \o SubSeq(seq, k + 1, Len(seq))

\* The part of ItemService.create_item and ItemService.update_item (app/
\* services) that follows the awaited get_coordinates: `item` is the object
\* the repository gave before the lookup, r what the lookup gave and u what
\* the save of update_geo_data gives.  With data, update_geo_data loads the
\* document again: it returns None when the document is gone, and the
\* service then fails on item.to_dict(); a database error is logged and the
\* object of before the lookup returned.
refresh_geo_data(coll, item, r, u) ==
    IF r.kind = "return" /\ r.value # None
    THEN IF find_item(coll, item.id) = 0
         THEN [coll |-> coll, written |-> FALSE,
               out |-> Raise(Exc("AttributeError", 0, 0))]
         ELSE IF u.kind = "raise"
         THEN [coll |-> coll, written |-> FALSE, out |-> Return(Some(item))]
         ELSE LET k == find_item(coll, item.id)
                  doc == with_geo_data(coll[k], r.value[1])
              IN  [coll |-> [coll EXCEPT ![k] = doc], written |-> TRUE,
                   out |-> Return(Some(doc))]
    ELSE [coll |-> coll, written |-> FALSE, out |-> Return(Some(item))]

\* app/features/items/service.py ItemService.create_item: the lookup is
\* awaited first; on an exception the geo fields are None
create_item_feature(id, pc, g) ==
    IF g.kind = "return"
    THEN with_geo_data(NewItem(id, pc), g.value[1])
    ELSE NewItem(id, pc)

\* core.events.handle_item_created(item_id, item_data), called by emit with
\* the arguments of the emit
handle_item_created(args) ==
    IF Len(args) = 2 THEN Return(None) ELSE Raise(Exc("TypeError", 0, 0))

\* The emitter of the features ItemService: the default, core.events'
\* event_emitter with its subscribers, or an injected one without any
Emitters == {"event_emitter", "injected"}

\* self.event_emitter.emit("item.created", {"item_id": str(item.id)}): one
\* argument
emit_item_created(emitter) ==
    IF emitter = "event_emitter"
    THEN handle_item_created(<<"item_id">>)
    ELSE Return(None)

\* The lookup a call wrote the geo fields of a document from
written_from(pc, g) == Some([postcode |-> pc, geo_data |-> g])

\* A call of a service that is awaiting its lookup: the object it holds
PendingCall(op, item) == [op |-> op, item |-> item]

\* services create_item up to the awaited get_coordinates:
\* ItemRepository.create_item has saved the document
CreateItemBegin(pc) ==
    /\ i_created < MaxItems
    /\ Len(i_pending) < MaxPending
    /\ LET item == NewItem(ItemId(i_created + 1), pc)
       IN  /\ items' = Append(items, item)
           /\ i_source' = Append(i_source, None)
           /\ i_pending' = Append(i_pending, PendingCall("create", item))
    /\ i_created' = i_created + 1
    /\ UNCHANGED i_last

\* services create_item from the answer of the lookup to its return
CreateItemEnd(c, resp, u) ==
    /\ c \in 1 .. Len(i_pending)
    /\ i_pending[c].op = "create"
    /\ LET item == i_pending[c].item
           r == ResolverOutcome(item.postcode, resp)
           w == refresh_geo_data(items, item, r, u)
       IN  /\ items' = w.coll
           /\ i_source' = IF w.written
                          THEN [i_source EXCEPT ![find_item(items, item.id)] =
                                   written_from(item.postcode, r.value[1])]
                          ELSE i_source
           /\ i_last' = [service |-> "services.item_service", resp |-> Some(resp),
                         outcome |-> w.out]
    /\ i_pending' = Without(i_pending, c)
    /\ UNCHANGED i_created

\* features create_item up to the awaited get_location_data: nothing is
\* stored yet
CreateItemFeatureBegin(pc) ==
    /\ i_created < MaxItems
    /\ Len(i_pending) < MaxPending
    /\ i_pending' = Append(i_pending,
                           PendingCall("create_feature",
                                       NewItem(ItemId(i_created + 1), pc)))
    /\ i_created' = i_created + 1
    /\ UNCHANGED <<items, i_source, i_last>>

\* features create_item from the answer of the lookup to its return: the
\* document is saved, then item.created is emitted
CreateItemFeatureEnd(c, resp, emitter) ==
    /\ c \in 1 .. Len(i_pending)
    /\ i_pending[c].op = "create_feature"
    /\ LET held == i_pending[c].item
           g == default_get_location_data(resp)
           item == create_item_feature(held.id, held.postcode, g)
           e == emit_item_created(emitter)
       IN  /\ items' = Append(items, item)
           /\ i_source' = Append(i_source,
                                 IF item.latitude # None
                                 THEN written_from(held.postcode, g.value[1])
                                 ELSE None)
           /\ i_last' = [service |-> "features.items", resp |-> Some(resp),
                         outcome |-> IF e.kind = "raise" THEN e
                                     ELSE Return(Some(item))]
    /\ i_pending' = Without(i_pending, c)
    /\ UNCHANGED i_created

\* ItemRepository.update_item for a postcode: setattr and save()
with_postcode(item, pc) == [item EXCEPT !.postcode = pc]

\* The upstream's answers create_item is run against: no answer, an error
\* status, a body without `places`, one without a location record, and two
\* location records
ItemResponses ==
    {resp \in UpstreamResponses :
        \/ resp.kind = "ConnectError"
        \/ resp.kind = "response" /\ resp.status = 404
        \/ resp.kind = "response" /\ resp.status = 200 /\ resp.places \in {None, Some(<<>>)}
        \/ resp.kind = "response" /\ resp.status = 200
              /\ resp.places \in {Some(<<Place(NY_LATITUDE, NY_LONGITUDE)>>),
                                  Some(<<Place(NY_LATITUDE - 1, NY_LONGITUDE + 1)>>)}}

\* The update payloads: without a postcode, or with one
UpdatePayloads == {None} \cup {Some(pc) : pc \in Postcodes}

\* services update_item(items[k].id, data) up to the awaited
\* get_coordinates: the allowed fields are saved; without a postcode in
\* the payload the call ends here
UpdateItemBegin(k, data) ==
    /\ k \in 1 .. Len(items)
    /\ IF data = None
       THEN UNCHANGED <<items, i_pending>>
       ELSE /\ Len(i_pending) < MaxPending
            /\ items' = [items EXCEPT ![k] = with_postcode(@, data[1])]
            /\ i_pending' = Append(i_pending,
                                   PendingCall("update", with_postcode(items[k], data[1])))
    /\ UNCHANGED <<i_source, i_last, i_created>>

\* services update_item from the answer of the lookup to its return
UpdateItemEnd(c, resp, u) ==
    /\ c \in 1 .. Len(i_pending)
    /\ i_pending[c].op = "update"
    /\ LET item == i_pending[c].item
           r == ResolverOutcome(item.postcode, resp)
           w == refresh_geo_data(items, item, r, u)
       IN  /\ items' = w.coll
           /\ i_source' = IF w.written
                          THEN [i_source EXCEPT ![find_item(items, item.id)] =
                                   written_from(item.postcode, r.value[1])]
                          ELSE i_source
    /\ i_pending' = Without(i_pending, c)
    /\ UNCHANGED <<i_last, i_created>>

\* delete_item(items[k].id) of either service: the document is removed
DeleteItem(k) ==
    /\ k \in 1 .. Len(items)
    /\ items' = Without(items, k)
    /\ i_source' = Without(i_source, k)
    /\ UNCHANGED <<i_last, i_pending, i_created>>

\* ------------------------------------------------------------------------
\* GeoWorker.start() as called by anyone, and the application's
\* startup_event and shutdown_event
\* ------------------------------------------------------------------------
\* asyncio.wait_for(worker_task, timeout=5.0), seconds
ShutdownTimeout == 5

\* What process_pending_lookups gives an iteration: it returns, or raises
\* (the read of the retry list fails, or an item is not a mapping, so that
\* the handlers of _process_lookup raise themselves)
IterationOutcomes == {Return(None), Raise(Exc("Exception", 0, 0))}

\* The task of asyncio.create_task(geo_worker.start()): the coroutine is
\* scheduled and has not begun
NewLoop ==
    [pc |-> "scheduled", iterations |-> 0, raised |-> FALSE, wait |-> 0,
     stopped |-> FALSE]

\* The task is not done: the coroutine has neither returned nor been
\* cancelled
Active(l) == l.pc \in {"scheduled", "processing", "sleeping"}

\* The coroutine is inside `while self.running`
Looping(l) == l.pc \in {"processing", "sleeping"}

after_iteration_fatal(o) ==
    IF o.kind = "raise"
    THEN [pc |-> "exited", wait |-> 0]
    ELSE [pc |-> "sleeping", wait |-> PollingInterval]

\* The rest of the loop body for an outcome of process_pending_lookups:
\* asyncio.sleep(polling_interval), in the try block or in the handler of
\* `except Exception`
after_iteration(o) ==
    IF o.kind = "raise"
    THEN [pc |-> "sleeping", wait |-> PollingInterval]
    ELSE [pc |-> "sleeping", wait |-> PollingInterval]

\* asyncio.create_task(geo_worker.start()) by any caller
StartLoop ==
    /\ Len(loops) < MaxLoops
    /\ loops' = Append(loops, NewLoop)
    /\ UNCHANGED <<running, worker_task, shutdown>>

\* startup_event: worker_task = asyncio.create_task(geo_worker.start())
Startup ==
    /\ worker_task = None
    /\ shutdown.pc = "idle"
    /\ Len(loops) < MaxLoops
    /\ loops' = Append(loops, NewLoop)
    /\ worker_task' = Some(Len(loops) + 1)
    /\ UNCHANGED <<running, shutdown>>

\* The event loop gives task i its first turn: start() sets running = True
\* and awaits its first process_pending_lookups
BeginLoop(i) ==
    /\ loops[i].pc = "scheduled"
    /\ running' = TRUE
    /\ loops' = [loops EXCEPT ![i] = [@ EXCEPT !.pc = "processing", !.iterations = 1]]
    /\ UNCHANGED <<worker_task, shutdown>>

\* The loops after running = False: the ones alive have had a stop()
stopped_loops(ls) ==
    [i \in DOMAIN ls |-> IF Looping(ls[i]) THEN [ls[i] EXCEPT !.stopped = TRUE] ELSE ls[i]]

\* geo_worker.stop()
StopLoops ==
    /\ running' = FALSE
    /\ loops' = stopped_loops(loops)
    /\ UNCHANGED <<worker_task, shutdown>>

\* process_pending_lookups of loop i ends with outcome o
EndIteration(i, o) ==
    /\ loops[i].pc = "processing"
    /\ loops' = [loops EXCEPT ![i] = [@ EXCEPT !.pc = after_iteration(o).pc,
                                               !.wait = after_iteration(o).wait,
                                               !.raised = (o.kind = "raise")]]
    /\ UNCHANGED <<running, worker_task, shutdown>>

\* asyncio.sleep of loop i returns: `while self.running` is tested
WakeLoop(i) ==
    /\ loops[i].pc = "sleeping"
    /\ running => loops[i].iterations < MaxIterations
    /\ loops' = [loops EXCEPT ![i] =
                    IF running
                    THEN [@ EXCEPT !.pc = "processing", !.iterations = @ + 1]
                    ELSE [@ EXCEPT !.pc = "exited"]]
    /\ UNCHANGED <<running, worker_task, shutdown>>

\* shutdown_event up to wait_for: nothing to wait for without a
\* worker_task, else stop() and the wait begins
ShutdownBegin ==
    /\ shutdown.pc = "idle"
    /\ IF worker_task = None
       THEN /\ shutdown' = [shutdown EXCEPT !.pc = "done", !.outcome = Return(None)]
            /\ UNCHANGED <<running, loops>>
       ELSE /\ running' = FALSE
            /\ loops' = stopped_loops(loops)
            /\ shutdown' = [shutdown EXCEPT !.pc = "waiting", !.task = worker_task]
    /\ UNCHANGED worker_task

\* asyncio.wait_for(task, timeout) when it ends: the task is done, or the
\* timeout has passed, the task is cancelled and TimeoutError raised
wait_for(task, timeout) ==
    IF ~Active(task) THEN Return(None) ELSE Raise(Exc("TimeoutError", 0, 0))

shutdown_outcome_uncaught(w) == w

\* try: await wait_for(...) except asyncio.TimeoutError: logger.warning
shutdown_outcome(w) ==
    IF w.kind = "raise" /\ IsInstance(w.exc[1], {"TimeoutError"})
    THEN Return(None)
    ELSE w

\* wait_for ends after `elapsed` seconds and shutdown_event runs to its
\* end; a task cancelled at its await is left by CancelledError, which the
\* `except Exception` of the loop does not handle.  The awaited task has
\* had its first turn by then: wait_for yields to the event loop first.
ShutdownEnd(elapsed) ==
    /\ shutdown.pc = "waiting"
    /\ loops[shutdown.task[1]].pc # "scheduled"
    /\ LET t == shutdown.task[1]
           w == wait_for(loops[t], ShutdownTimeout)
       IN  /\ w.kind = "raise" => elapsed = ShutdownTimeout
           /\ loops' = IF w.kind = "raise"
                       THEN [loops EXCEPT ![t] = [@ EXCEPT !.pc = "cancelled"]]
                       ELSE loops
           /\ shutdown' = [shutdown EXCEPT !.pc = "done", !.waited = elapsed,
                                          !.outcome = shutdown_outcome(w)]
           /\ worker_task' = IF shutdown_outcome(w).kind = "return"
                             THEN None ELSE worker_task
    /\ UNCHANGED running

\* ------------------------------------------------------------------------
\* Specifications
\* ------------------------------------------------------------------------
\* The state after construction: no call of get_coordinates begun, an empty
\* geo_cache collection, a GeoWorker that is not running; the arguments are
\* the decorator's parameters and the retry lists to start from.
Init(retriesValues, jitterValues, queues, subscribers, answers, points) ==
    /\ retries \in retriesValues
    /\ jitter \in jitterValues
    /\ r_pc = "idle"
    /\ postcode = ""
    /\ attempt = 0
    /\ current_delay = GeoDelay
    /\ last_exception = None
    /\ responses = <<>>
    /\ history = <<>>
    /\ waits = <<>>
    /\ inner = Pending
    /\ result = Pending
    /\ events = <<>>
    /\ handlers \in subscribers
    /\ handled = <<>>
    /\ geo_cache = <<>>
    /\ c_pc = [c \in Callers |-> "idle"]
    /\ c_postcode = [c \in Callers |-> ""]
    /\ c_result = [c \in Callers |-> Pending]
    /\ c_resp = [c \in Callers |-> None]
    /\ c_calls = [c \in Callers |-> 0]
    /\ fetches = [p \in Postcodes |-> 0]
    /\ succeeded = [p \in Postcodes |-> {}]
    /\ c_now = 0
    /\ running = FALSE
    /\ w_pc = "init"
    /\ w_idx = 0
    /\ queue \in queues
    /\ now = 0
    /\ resolver_calls = [i \in QueuePositions |-> 0]
    /\ w_done = [idx |-> 0, resolved |-> FALSE, r |-> Pending,
                 updated |-> None, u |-> Pending]
    /\ stop_at = None
    /\ stop_calls = 0
    /\ \E a \in answers : f_postcode = a[1] /\ f_resp = a[2]
    /\ f_out = [impl \in FetchImplementations |-> Pending]
    /\ \E p \in points : d_latitude = p[1] /\ d_longitude = p[2]
    /\ d_out = [impl \in DirectionImplementations |-> None]
    /\ items = <<>>
    /\ i_last = [service |-> "", resp |-> None, outcome |-> Pending]
    /\ i_source = <<>>
    /\ i_pending = <<>>
    /\ i_created = 0
    /\ loops = <<>>
    /\ worker_task = None
    /\ shutdown = [pc |-> "idle", task |-> None, waited |-> 0, outcome |-> Pending]

RetryNext ==
    \/ \E p \in Postcodes : Call(p)
    \/ \E resp \in UpstreamResponses, sample \in JitterSamples : Attempt(resp, sample)
    \/ Wake

CacheNext ==
    \/ \E c \in Callers, p \in Postcodes : Resolve(c, p)
    \/ \E c \in Callers, resp \in UpstreamResponses : FetchDone(c, resp)

\* The worker with resolver calls that answer at once
WorkerNext ==
    \/ Start
    \/ Stop
    \/ \E i \in 1 .. Len(queue) :
          \E r \in ResolverOutcomes(queue[i].postcode), u \in UpdateOutcomes :
              i = w_idx /\ ProcessLookup(r, u, 0)
    \/ Wake_loop

\* The worker with resolver calls that take time
LifecycleNext ==
    \/ Start
    \/ Stop
    \/ \E i \in 1 .. Len(queue) :
          \E r \in ResolverOutcomes(queue[i].postcode), u \in UpdateOutcomes,
             d \in ResolveDurations :
              i = w_idx /\ ProcessLookup(r, u, d)
    \/ Wake_loop

\* One worker whose start() and stop() anyone may call, under the application
LoopsNext ==
    \/ Startup
    \/ StartLoop
    \/ \E i \in 1 .. Len(loops) : BeginLoop(i)
    \/ StopLoops
    \/ \E i \in 1 .. Len(loops) : \E o \in IterationOutcomes : EndIteration(i, o)
    \/ \E i \in 1 .. Len(loops) : WakeLoop(i)
    \/ ShutdownBegin
    \/ \E elapsed \in 0 .. ShutdownTimeout : ShutdownEnd(elapsed)

FetchNext == \E impl \in FetchImplementations : Fetch(impl)

DirectionNext == \E impl \in DirectionImplementations : Direct(impl)

ItemsNext ==
    \/ \E pc \in Postcodes : CreateItemBegin(pc)
    \/ \E c \in 1 .. MaxPending, resp \in ItemResponses, u \in UpdateOutcomes :
          CreateItemEnd(c, resp, u)
    \/ \E pc \in Postcodes : CreateItemFeatureBegin(pc)
    \/ \E c \in 1 .. MaxPending, resp \in ItemResponses, emitter \in Emitters :
          CreateItemFeatureEnd(c, resp, emitter)
    \/ \E k \in 1 .. MaxItems, data \in UpdatePayloads : UpdateItemBegin(k, data)
    \/ \E c \in 1 .. MaxPending, resp \in WorkerResponses, u \in UpdateOutcomes :
          UpdateItemEnd(c, resp, u)
    \/ \E k \in 1 .. MaxItems : DeleteItem(k)

\* No answer and no point drawn
NoAnswer == {<<"", None>>}

NoPoint == {<<0, 0>>}

SpecRetry ==
    /\ Init(1 .. GeoRetries, BOOLEAN, {<<>>}, {RepositoryHandlers}, NoAnswer, NoPoint)
    /\ [][RetryNext /\ UNCHANGED <<loopVars, cacheVars, workerVars, fetchVars, directionVars,
                                    itemVars>>]_vars

SpecBus ==
    /\ Init({GeoRetries}, {TRUE}, {<<>>}, HandlerSets, NoAnswer, NoPoint)
    /\ [][RetryNext /\ UNCHANGED <<loopVars, cacheVars, workerVars, fetchVars, directionVars,
                                    itemVars>>]_vars

SpecCache ==
    /\ Init({GeoRetries}, {TRUE}, {<<>>}, {RepositoryHandlers}, NoAnswer, NoPoint)
    /\ [][CacheNext /\ UNCHANGED <<loopVars, retryVars, workerVars, fetchVars, directionVars,
                                    itemVars>>]_vars

SpecWorker ==
    /\ Init({GeoRetries}, {TRUE}, InitialQueues, {RepositoryHandlers}, NoAnswer, NoPoint)
    /\ [][WorkerNext /\ UNCHANGED <<loopVars, retryVars, cacheVars, fetchVars, directionVars,
                                     itemVars>>]_vars

SpecLifecycle ==
    /\ Init({GeoRetries}, {TRUE}, {q \in InitialQueues : Len(q) <= 1},
            {RepositoryHandlers}, NoAnswer, NoPoint)
    /\ [][LifecycleNext /\ UNCHANGED <<loopVars, retryVars, cacheVars, fetchVars, directionVars,
                                        itemVars>>]_vars

SpecLoops ==
    /\ Init({GeoRetries}, {TRUE}, {<<>>}, {RepositoryHandlers}, NoAnswer, NoPoint)
    /\ [][LoopsNext /\ UNCHANGED <<retryVars, cacheVars, w_pc, w_idx, queue, now,
                                    resolver_calls, w_done, stop_at, stop_calls,
                                    fetchVars, directionVars, itemVars>>]_vars

SpecFetch ==
    /\ Init({GeoRetries}, {TRUE}, {<<>>}, {RepositoryHandlers},
            Postcodes \X FetchResponses, NoPoint)
    /\ [][FetchNext /\ UNCHANGED <<loopVars, retryVars, cacheVars, workerVars, directionVars,
                                    itemVars>>]_vars

SpecDirection ==
    /\ Init({GeoRetries}, {TRUE}, {<<>>}, {RepositoryHandlers}, NoAnswer,
            DirectionLatitudes \X DirectionLongitudes)
    /\ [][DirectionNext /\ UNCHANGED <<loopVars, retryVars, cacheVars, workerVars, fetchVars,
                                        itemVars>>]_vars

SpecItems ==
    /\ Init({GeoRetries}, {TRUE}, {<<>>}, {RepositoryHandlers}, NoAnswer, NoPoint)
    /\ [][ItemsNext /\ UNCHANGED <<loopVars, retryVars, cacheVars, workerVars, fetchVars,
                                    directionVars>>]_vars

\* ------------------------------------------------------------------------
\* Properties of the decorated get_coordinates (SpecRetry)
\* ------------------------------------------------------------------------
CountEvents(names) == Cardinality({i \in 1 .. Len(events) : events[i].name \in names})

EventsNamed(name) == {events[i] : i \in {j \in 1 .. Len(events) : events[j].name = name}}

\* The upstream's answers by kind
IsTransportFailure(resp) == resp.kind \in {"ConnectError", "ReadTimeout"}

IsStatusFailure(resp) == resp.kind = "response" /\ (resp.status < 200 \/ resp.status > 299)

IsEmptyAnswer(resp) ==
    resp.kind = "response" /\ resp.status = 200 /\ get_places(resp, <<>>) = <<>>

IsLocatedAnswer(resp) ==
    /\ resp.kind = "response" /\ resp.status = 200 /\ get_places(resp, <<>>) # <<>>
    /\ get_places(resp, <<>>)[1].latitude # None
    /\ get_places(resp, <<>>)[1].longitude # None

AllTransportFailures == \A i \in 1 .. Len(responses) : IsTransportFailure(responses[i])

Last(s) == s[Len(s)]

ApiEventNames ==
    {"api.geo_lookup.error", "api.geo_lookup.connection_error",
     "api.geo_lookup.unexpected_error"}

\* C1 (as stated): when every invocation raises a retryable error, the
\* operation is invoked exactly N = retries times and the last invocation's
\* error is raised.
C1_Original ==
    (r_pc = "done" /\ AllTransportFailures)
        => (Len(history) = retries /\ inner = Last(history))

\* C1 (amended): the operation is never invoked more than retries + 1 times;
\* when every invocation raises a retryable error it is invoked exactly
\* retries + 1 times (one first attempt and `retries` retries) and the error
\* raised by the wrapper is the one of the last invocation.
C1_BoundedAttempts ==
    /\ Len(history) <= retries + 1
    /\ (r_pc = "done" /\ AllTransportFailures)
           => /\ Len(history) = retries + 1
              /\ inner = Last(history)
              /\ inner.exc[1].call = retries + 1
              /\ last_exception = inner.exc

C1_Witness ==
    /\ r_pc = "done"
    /\ retries = GeoRetries
    /\ Len(history) = GeoRetries + 1
    /\ AllTransportFailures
    /\ inner.kind = "raise"

\* C2: an invocation that raises an error outside the retryable set is the
\* only invocation: no wait happens and the wrapper raises that error at once.
C2_ShortCircuit ==
    (Len(responses) >= 1 /\ ~IsTransportFailure(responses[1])
        /\ ~IsEmptyAnswer(responses[1]) /\ ~IsLocatedAnswer(responses[1]))
        => /\ Len(history) = 1
           /\ waits = <<>>
           /\ r_pc = "done"
           /\ inner = history[1]
           /\ result.kind = "raise"

C2_Witness ==
    /\ r_pc = "done"
    /\ Len(history) = 1
    /\ history[1].kind = "raise"
    /\ history[1].exc[1].type = "HTTPStatusError"
    /\ history[1].exc[1].status = 404

\* C4: a call that ends with a successful fetch has published
\* geo.lookup.success exactly once, with the postcode and the resolved
\* latitude, longitude and direction, and no geo.lookup.error, however many
\* attempts failed before.
C4_SuccessEventOnce ==
    (r_pc = "done" /\ Len(responses) >= 1 /\ IsLocatedAnswer(Last(responses)))
        => LET place == get_places(Last(responses), <<>>)[1]
               res == [latitude |-> place.latitude[1][2],
                       longitude |-> place.longitude[1][2],
                       direction_from_new_york |->
                           Last(history).value[1].direction_from_new_york]
           IN  /\ result = Return(Some(res))
               /\ CountEvents({"geo.lookup.success"}) = 1
               /\ EventsNamed("geo.lookup.success")
                      = {Event("geo.lookup.success", <<postcode, res>>)}
               /\ res.direction_from_new_york
                      = calculate_direction(res.latitude, res.longitude)
               /\ CountEvents({"geo.lookup.error"}) = 0

C4_Witness ==
    /\ r_pc = "done"
    /\ Len(history) = 3
    /\ IsTransportFailure(responses[1])
    /\ IsTransportFailure(responses[2])
    /\ IsLocatedAnswer(responses[3])
    /\ result.kind = "return"
    /\ result.value # None
    /\ CountEvents({"geo.lookup.success"}) = 1

\* C5 (as stated): when the upstream answers with an empty places list the
\* call raises an error to its caller and geo.lookup.error is published
\* exactly once.
C5_Original ==
    (r_pc = "done" /\ Len(responses) >= 1 /\ IsEmptyAnswer(Last(responses)))
        => (result.kind = "raise" /\ CountEvents({"geo.lookup.error"}) = 1)

\* C5 (amended): when the upstream answers with an empty places list the
\* call returns None to its caller (it raises nothing), geo.lookup.error is
\* published exactly once for that postcode and no geo.lookup.success.
C5_NoDataReturnsNone ==
    (r_pc = "done" /\ Len(responses) >= 1 /\ IsEmptyAnswer(Last(responses)))
        => /\ result = Return(None)
           /\ CountEvents({"geo.lookup.error"}) = 1
           /\ \A e \in EventsNamed("geo.lookup.error") : e.args[1] = postcode
           /\ CountEvents({"geo.lookup.success"}) = 0

C5_Witness ==
    /\ r_pc = "done"
    /\ postcode = "00000"
    /\ Len(responses) >= 1
    /\ IsEmptyAnswer(Last(responses))
    /\ result = Return(None)
    /\ CountEvents({"geo.lookup.error"}) = 1

\* The failures C6 names: every attempt raised a transport error, or the
\* upstream answered with a non-success status.
RetriesExhausted == r_pc = "done" /\ AllTransportFailures

UpstreamStatusFailure ==
    /\ r_pc = "done"
    /\ Len(responses) >= 1
    /\ IsStatusFailure(Last(responses))

\* C6 (as stated): such a failure publishes geo.lookup.error exactly once
\* and raises an error to the caller.
C6_Original ==
    (RetriesExhausted \/ UpstreamStatusFailure)
        => (CountEvents({"geo.lookup.error"}) = 1 /\ result.kind = "raise")

\* C6 (amended): such a failure raises ApiError to the caller and publishes
\* exactly one error event: api.geo_lookup.connection_error when the
\* retries were exhausted by transport errors, api.geo_lookup.error when
\* the upstream answered with a non-success status; geo.lookup.error is not
\* published.
C6_FailureRaisedAndPublished ==
    /\ RetriesExhausted
          => /\ result.kind = "raise"
             /\ result.exc[1].type = "ApiError"
             /\ CountEvents(ApiEventNames) = 1
             /\ CountEvents({"api.geo_lookup.connection_error"}) = 1
             /\ CountEvents({"geo.lookup.error"}) = 0
    /\ UpstreamStatusFailure
          => /\ result.kind = "raise"
             /\ result.exc[1].type = "ApiError"
             /\ result.exc[1].status = Last(responses).status
             /\ CountEvents(ApiEventNames) = 1
             /\ CountEvents({"api.geo_lookup.error"}) = 1
             /\ CountEvents({"geo.lookup.error"}) = 0

C6_Witness ==
    /\ RetriesExhausted
    /\ Len(history) = retries + 1
    /\ result.kind = "raise"
    /\ CountEvents({"api.geo_lookup.connection_error"}) = 1

\* ------------------------------------------------------------------------
\* Properties of get_location_data (SpecCache)
\* ------------------------------------------------------------------------
\* Caller c begins a call for a postcode that a finished call has resolved.
BeginsAfterSuccess(c, pc) ==
    /\ c_calls'[c] = c_calls[c] + 1
    /\ c_postcode'[c] = pc
    /\ succeeded[pc] # {}

\* C3: once a call for a postcode has succeeded, every later call for it
\* returns those same coordinates at once, from the cache: no upstream GET
\* is issued, no event is published, and all successful calls for the
\* postcode have returned one and the same latitude/longitude.
C3_CacheRoundTrip ==
    [][\A c \in Callers, pc \in Postcodes :
          BeginsAfterSuccess(c, pc)
              => /\ c_pc'[c] = "done"
                 /\ c_result'[c].kind = "return"
                 /\ succeeded[pc] = {c_result'[c].value[1]}
                 /\ succeeded'[pc] = succeeded[pc]
                 /\ fetches' = fetches
                 /\ events' = events
                 /\ geo_cache' = geo_cache]_vars

C3_Witness ==
    \E c \in Callers :
        /\ c_pc[c] = "done"
        /\ c_result[c].kind = "return"
        /\ c_postcode[c] = "10001"
        /\ fetches["10001"] = 1
        /\ fetches["00000"] = 0
        /\ TotalCalls = 3
        /\ \A d \in Callers : c_pc[d] # "fetching"
        /\ Len(geo_cache) = 1

\* ------------------------------------------------------------------------
\* Properties of the worker (SpecWorker)
\* ------------------------------------------------------------------------
\* The step is a _process_lookup call on the item at position i
ProcessStep(i) == w_pc = "processing" /\ w_idx = i /\ w_idx' # w_idx

\* C7: processing an item whose retry_count is 5 or more invokes neither
\* the resolver nor the owner update, and removes the item from the queue.
C7_Ceiling ==
    [][\A i \in QueuePositions :
          (ProcessStep(i) /\ queue[i].retry_count >= MaxQueuedRetries)
              => /\ ~w_done'.resolved
                 /\ w_done'.updated = None
                 /\ resolver_calls' = resolver_calls
                 /\ Len(queue') = Len(queue) - 1]_vars

\* C8: an item's retry_count never decreases and never exceeds 5, and the
\* resolver is invoked for the item at most 5 times.
C8_RetryBound ==
    [][\A i \in 1 .. Len(queue) :
          /\ Len(queue') = Len(queue) => queue'[i].retry_count >= queue[i].retry_count
          /\ queue[i].retry_count <= MaxQueuedRetries
          /\ resolver_calls'[i] <= MaxQueuedRetries]_vars

\* The kinds of failed re-attempt, read from what the resolver and the
\* repository gave the last _process_lookup call
NoDataFailure(d) == d.resolved /\ d.r = Return(None)

ApiErrorFailure(d) == d.resolved /\ d.r.kind = "raise" /\ d.r.exc[1].type = "ApiError"

OtherFailure(d) ==
    /\ d.resolved
    /\ \/ d.r.kind = "raise" /\ d.r.exc[1].type # "ApiError"
       \/ d.u.kind = "raise"

FailedAttempt(d) == NoDataFailure(d) \/ ApiErrorFailure(d) \/ OtherFailure(d)

\* C9 (as stated): every failed re-attempt increases retry_count by 1, sets
\* last_error and next_retry and keeps the item in the queue.
C9_Original ==
    [][\A i \in QueuePositions :
          (ProcessStep(i) /\ FailedAttempt(w_done'))
              => /\ Len(queue') = Len(queue)
                 /\ queue'[i].retry_count = queue[i].retry_count + 1
                 /\ queue'[i].last_error # None
                 /\ queue'[i].next_retry # None]_vars

\* C9 (amended): every failed re-attempt increases retry_count by exactly 1,
\* sets next_retry and keeps the item in the queue; last_error is set to
\* the text of the exception when the resolver raised ApiError or another
\* exception was raised, and is left as it was when the resolver returned
\* no data.
C9_FailureBookkeeping ==
    [][\A i \in QueuePositions :
          (ProcessStep(i) /\ FailedAttempt(w_done'))
              => /\ Len(queue') = Len(queue)
                 /\ queue'[i].retry_count = queue[i].retry_count + 1
                 /\ queue'[i].next_retry # None
                 /\ queue'[i].postcode = queue[i].postcode
                 /\ queue'[i].item_id = queue[i].item_id
                 /\ NoDataFailure(w_done') => queue'[i].last_error = queue[i].last_error
                 /\ ApiErrorFailure(w_done')
                       => queue'[i].last_error = Some(Str(w_done'.r.exc[1]))
                 /\ (OtherFailure(w_done') /\ w_done'.u.kind = "raise")
                       => queue'[i].last_error = Some(Str(w_done'.u.exc[1]))]_vars

C9_Witness ==
    /\ Len(queue) = 2
    /\ w_done.idx = 2
    /\ NoDataFailure(w_done)
    /\ queue[2].retry_count = 1
    /\ queue[2].last_error = None
    /\ queue[2].next_retry = Some(isoformat(now + NoDataDelay))
    /\ queue[1].retry_count = 2
    /\ queue[1].last_error # None

\* C10: the resolver is invoked for an item only when the item has no
\* next_retry yet or its next_retry is at or before the current time.
C10_Eligibility ==
    [][\A i \in QueuePositions :
          resolver_calls'[i] > resolver_calls[i]
              => \/ queue[i].next_retry = None
                 \/ fromisoformat(queue[i].next_retry[1]) <= now]_vars

\* C11: within one process_pending_lookups call every item of the batch is
\* processed exactly once and in order, whatever came of the items before
\* it: the batch begins at position 1, the _process_lookup call on position
\* i is followed by the one on position i + 1, or by the end of the batch
\* when i is the last position, and no exception leaves _process_lookup.
C11_BatchIsolation ==
    [][/\ (w_pc # "processing" /\ w_pc' = "processing") => w_idx' = 1
       /\ \A i \in QueuePositions :
             ProcessStep(i)
                 => /\ w_done'.idx = i
                    /\ Len(queue') = Len(queue)
                    /\ IF i < Len(queue)
                       THEN w_pc' = "processing" /\ w_idx' = i + 1
                       ELSE w_pc' = "sleeping" /\ w_idx' = 0]_vars

C11_Witness ==
    /\ Len(queue) = 2
    /\ w_pc = "sleeping"
    /\ w_done.idx = 2
    /\ w_done.resolved
    /\ resolver_calls[1] = 1
    /\ resolver_calls[2] = 1
    /\ queue[1].retry_count = 1
    /\ queue[1].last_error = Some(Str(Exc("Exception", 0, 0)))

\* A re-attempt whose resolution gave data
SuccessfulReattempt(d) == d.resolved /\ d.r.kind = "return" /\ d.r.value # None

\* update_geo_data was awaited once, with the item's id and the resolved
\* data, when the item has an id, and not at all when it has none
DeliveredOnce(item, d) ==
    IF item.item_id # None
    THEN d.updated = Some([item_id |-> item.item_id[1], geo_data |-> d.r.value[1]])
    ELSE d.updated = None

\* C12 (as stated): a re-attempt that resolves successfully awaits
\* update_geo_data exactly once with the item's id and the resolved data if
\* the item has an id and not at all otherwise, and in both cases leaves
\* retry_count, last_error and next_retry as they were.
C12_Original ==
    [][\A i \in QueuePositions :
          (ProcessStep(i) /\ SuccessfulReattempt(w_done'))
              => /\ DeliveredOnce(queue[i], w_done')
                 /\ queue'[i].retry_count = queue[i].retry_count
                 /\ queue'[i].last_error = queue[i].last_error
                 /\ queue'[i].next_retry = queue[i].next_retry]_vars

\* C12 (amended): the same, with the bookkeeping left as it was when
\* update_geo_data returns or is not awaited; when update_geo_data raises,
\* the item is handled as an unexpected failure: retry_count + 1,
\* last_error the text of the exception, next_retry 15 minutes ahead.
C12_SuccessDelivery ==
    [][\A i \in QueuePositions :
          (ProcessStep(i) /\ SuccessfulReattempt(w_done'))
              => /\ DeliveredOnce(queue[i], w_done')
                 /\ w_done'.u.kind # "raise"
                       => /\ queue'[i].retry_count = queue[i].retry_count
                          /\ queue'[i].last_error = queue[i].last_error
                          /\ queue'[i].next_retry = queue[i].next_retry
                 /\ w_done'.u.kind = "raise"
                       => /\ queue'[i].retry_count = queue[i].retry_count + 1
                          /\ queue'[i].last_error = Some(Str(w_done'.u.exc[1]))
                          /\ queue'[i].next_retry
                                 = Some(isoformat(now' + UnexpectedDelay))]_vars

C12_Witness ==
    /\ w_done.idx = 1
    /\ SuccessfulReattempt(w_done)
    /\ w_done.updated = Some([item_id |-> "item1", geo_data |-> w_done.r.value[1]])
    /\ w_done.u.kind = "return"
    /\ queue[1].retry_count = 0
    /\ queue[1].last_error = None
    /\ queue[1].next_retry = None

\* C13: after start(), stop() makes the loop exit within one polling
\* interval of the stop() call, whether it was processing or sleeping then,
\* and no iteration begins after the stop().
C13_StopLatency ==
    [][/\ (w_pc # "exited" /\ w_pc' = "exited")
             => /\ stop_at # None
                /\ now' - stop_at[1] <= PollingInterval
       /\ (stop_at # None /\ w_pc = "sleeping") => w_pc' # "processing"]_vars

\* C14: stop() leaves running False and nothing else changed, on a worker
\* that was never started as on a started one, and a stop() that follows a
\* stop() finds running False and leaves the state as the first did.
C14_StopIdempotent ==
    [][/\ stop_calls >= 1 => running = FALSE
       /\ stop_calls' = stop_calls + 1
             => /\ running' = FALSE
                /\ UNCHANGED <<w_pc, w_idx, queue, now, resolver_calls, w_done>>
                /\ stop_calls >= 1 => UNCHANGED <<running, stop_at>>]_vars

C14_Witness ==
    /\ stop_calls = 2
    /\ running = FALSE
    /\ w_pc = "sleeping"
    /\ stop_at = Some(now)

\* The topic a finished call published on the bus for its last answer
PublishedTopic ==
    IF IsLocatedAnswer(Last(responses)) THEN "geo.lookup.success" ELSE "geo.lookup.error"

\* C15: an exception of a subscriber of geo.lookup.success or
\* geo.lookup.error does not reach the publisher: the call ends with the
\* outcome it has when no subscriber raises, and every subscriber of the
\* topic has been called.
C15_BusIsolation ==
    (/\ r_pc = "done"
     /\ Len(responses) >= 1
     /\ IsLocatedAnswer(Last(responses)) \/ IsEmptyAnswer(Last(responses)))
        => /\ result = ResolverOutcome(postcode, Last(responses))
           /\ \A i \in 1 .. Len(handlers[PublishedTopic]) :
                 \E k \in 1 .. Len(handled) : handled[k] = <<PublishedTopic, i>>

\* The statuses C16 calls retryable
IsRetryableStatus(resp) ==
    resp.kind = "response" /\ (resp.status = 429 \/ resp.status >= 500)

\* C16 (as stated): an answer with status 5xx or 429 is re-attempted while
\* attempts remain; only a 4xx other than 429 ends the call after a single
\* attempt.
C16_Original ==
    \A k \in 1 .. Len(responses) :
        (IsRetryableStatus(responses[k]) /\ k <= retries)
            => (Len(responses) > k \/ r_pc = "sleep")

\* C16 (amended): an answer with any non-success status, 5xx and 429 as
\* any other 4xx, is the last attempt of the call: no wait follows it and
\* the call raises ApiError with that status.
C16_StatusEndsCall ==
    \A k \in 1 .. Len(responses) :
        IsStatusFailure(responses[k])
            => /\ k = Len(responses)
               /\ r_pc = "done"
               /\ Len(waits) = k - 1
               /\ result.kind = "raise"
               /\ result.exc[1].type = "ApiError"
               /\ result.exc[1].status = responses[k].status

C16_Witness ==
    /\ r_pc = "done"
    /\ Len(responses) = 2
    /\ IsTransportFailure(responses[1])
    /\ responses[2].kind = "response"
    /\ responses[2].status = 500
    /\ result.kind = "raise"
    /\ result.exc[1].status = 500

\* A successful answer with no location record: `places` absent or empty
NoPlaces(resp) ==
    /\ resp.kind = "response"
    /\ resp.status = 200
    /\ resp.places \in {None, Some(<<>>)}

YieldsCoordinates(out) == out.kind = "return" /\ out.value # None

\* C17: for a successful answer whose `places` is absent or empty, none of
\* the three fetch implementations gives its caller coordinates.
C17_NoCoordinatesWithoutPlace ==
    NoPlaces(f_resp)
        => \A impl \in FetchImplementations :
               f_out[impl] # Pending => ~YieldsCoordinates(f_out[impl])

\* The lookup of a create_item call fails: no answer, a non-success status,
\* or no location record
LookupFails(resp) ==
    resp.kind # "response" \/ IsStatusFailure(resp) \/ IsEmptyAnswer(resp)

\* C18: a create_item call whose lookup fails still returns the item it
\* stored, with latitude, longitude and direction unset, and the postcode
\* is on the retry queue with the item's id.
C18_GracefulDegradation ==
    [][(i_last' # i_last /\ LookupFails(i_last'.resp[1]))
          => /\ i_last'.outcome.kind = "return"
             /\ i_last'.outcome.value # None
             /\ LET item == i_last'.outcome.value[1]
                IN  /\ item.latitude = None
                    /\ item.longitude = None
                    /\ item.direction_from_new_york = None
                    /\ \E k \in 1 .. Len(queue') :
                          /\ queue'[k].postcode = item.postcode
                          /\ queue'[k].item_id = Some(item.id)]_vars

\* C19: every implementation returns exactly the direction of the
\* reference rule, north when latitude >= 40.7506 and east when
\* longitude >= -73.9971, one of NE, NW, SE, SW; at the reference point
\* that is NE; the implementations agree.
C19_DirectionRule ==
    LET north == d_latitude >= 407506
        east == d_longitude >= -739971
    IN  /\ \A impl \in DirectionImplementations :
               d_out[impl] # None
                   => /\ d_out[impl][1] \in {"NE", "NW", "SE", "SW"}
                      /\ d_out[impl][1] = "NE" <=> (north /\ east)
                      /\ d_out[impl][1] = "NW" <=> (north /\ ~east)
                      /\ d_out[impl][1] = "SE" <=> (~north /\ east)
                      /\ d_out[impl][1] = "SW" <=> (~north /\ ~east)
                      /\ (d_latitude = 407506 /\ d_longitude = -739971)
                             => d_out[impl][1] = "NE"
        /\ \A a, b \in DirectionImplementations :
               (d_out[a] # None /\ d_out[b] # None) => d_out[a] = d_out[b]

C19_Witness ==
    /\ d_latitude = 407506
    /\ d_longitude = -739971
    /\ \A impl \in DirectionImplementations : d_out[impl] = Some("NE")

\* C20: whatever the interleaving of get_location_data calls, the cache
\* holds at most one document per postcode.
C20_OneEntryPerPostcode ==
    \A pc \in Postcodes :
        Cardinality({i \in 1 .. Len(geo_cache) : geo_cache[i].postcode = pc}) <= 1

C20_Witness ==
    /\ fetches["10001"] = 2
    /\ c_postcode[1] = "10001"
    /\ c_postcode[2] = "10001"
    /\ c_pc[1] = "done"
    /\ c_pc[2] = "done"
    /\ c_result[1].kind = "return"
    /\ c_result[2] = Raise(Exc("NotUniqueError", 0, 0))
    /\ Cardinality({i \in 1 .. Len(geo_cache) : geo_cache[i].postcode = "10001"}) = 1

\* The step finishes the fetch of caller c (the answer is c_resp'[c])
FetchEnds(c) == c_pc[c] = "fetching" /\ c_pc'[c] = "done"

\* C21: cache entries come only from successful resolutions: a call whose
\* fetch fails leaves the collection as it was; a step that changes the
\* collection is the end of a fetch that got a location record, and it
\* appends one entry with the call's postcode and the coordinates the call
\* returns (those of the answer); the entries already there are neither
\* changed nor deleted.
C21_CacheFromSuccess ==
    [][/\ Len(geo_cache') >= Len(geo_cache)
       /\ \A i \in 1 .. Len(geo_cache) :
             /\ geo_cache'[i].postcode = geo_cache[i].postcode
             /\ geo_cache'[i].latitude = geo_cache[i].latitude
             /\ geo_cache'[i].longitude = geo_cache[i].longitude
       /\ (\A c \in Callers : ~FetchEnds(c)) => geo_cache' = geo_cache
       /\ \A c \in Callers :
             FetchEnds(c)
                 => /\ LookupFails(c_resp'[c][1])
                          => (geo_cache' = geo_cache /\ c_result'[c].kind = "raise")
                    /\ geo_cache' # geo_cache
                          => LET doc == geo_cache'[Len(geo_cache')]
                                 resp == c_resp'[c][1]
                             IN  /\ Len(geo_cache') = Len(geo_cache) + 1
                                 /\ ~LookupFails(resp)
                                 /\ doc.postcode = c_postcode[c]
                                 /\ c_result'[c] = Return(Some(Coordinates(
                                        doc.latitude, doc.longitude)))
                                 /\ IsLocatedAnswer(resp)
                                       => /\ doc.latitude
                                             = get_places(resp, <<>>)[1].latitude[1][2]
                                          /\ doc.longitude
                                             = get_places(resp, <<>>)[1].longitude[1][2]
      ]_vars

C21_Witness ==
    /\ c_pc[1] = "done"
    /\ c_pc[2] = "done"
    /\ c_postcode[1] = "10001"
    /\ c_postcode[2] = "00000"
    /\ c_result[1].kind = "return"
    /\ c_resp[1] # None
    /\ c_resp[2] # None
    /\ IsEmptyAnswer(c_resp[2][1])
    /\ c_result[2].kind = "raise"
    /\ Len(geo_cache) = 1
    /\ geo_cache[1].postcode = "10001"

\* C22: writing coordinates for a postcode that already has an entry
\* succeeds (the call returns them), leaves exactly one entry for the
\* postcode holding those coordinates, and sets updated_at to the time of
\* the write, never earlier than it was.
C22_PutUpsert ==
    [][\A c \in Callers :
          (/\ FetchEnds(c)
           /\ IsLocatedAnswer(c_resp'[c][1])
           /\ \E i \in 1 .. Len(geo_cache) : geo_cache[i].postcode = c_postcode[c])
              => LET place == get_places(c_resp'[c][1], <<>>)[1]
                     held == {i \in 1 .. Len(geo_cache') :
                                 geo_cache'[i].postcode = c_postcode[c]}
                 IN  /\ c_result'[c].kind = "return"
                     /\ Cardinality(held) = 1
                     /\ \A i \in held :
                           /\ geo_cache'[i].latitude = place.latitude[1][2]
                           /\ geo_cache'[i].longitude = place.longitude[1][2]
                           /\ geo_cache'[i].updated_at = c_now
                           /\ geo_cache'[i].updated_at >= geo_cache[i].updated_at]_vars

\* C26: two calls for one postcode that both missed the cache and both got
\* a location record from the upstream both return the coordinates.
C26_BothReturn ==
    \A a, b \in Callers :
        (/\ a # b
         /\ c_pc[a] = "done" /\ c_pc[b] = "done"
         /\ c_postcode[a] = c_postcode[b]
         /\ c_resp[a] # None /\ c_resp[b] # None
         /\ IsLocatedAnswer(c_resp[a][1]) /\ IsLocatedAnswer(c_resp[b][1]))
            => /\ c_result[a].kind = "return"
               /\ c_result[b].kind = "return"
               /\ c_result[a].value # None
               /\ c_result[b].value # None

\* The un-jittered wait after failed attempt k: base_delay * backoff_factor^(k-1)
ScheduledDelay(k) == GeoDelay * GeoBackoffFactor ^ (k - 1)

\* C24: the wrapper waits exactly once between two consecutive attempts and
\* not after the final one; without jitter the wait after failed attempt k
\* is base_delay * backoff_factor^(k-1), with jitter it lies between 0.5 and
\* 1.5 times that value.
C24_BackoffSchedule ==
    /\ r_pc \in {"sleep", "attempt"} => Len(waits) = Len(history)
    /\ r_pc = "done" => Len(waits) = Len(history) - 1
    /\ \A k \in 1 .. Len(waits) :
          IF jitter
          THEN /\ 2 * waits[k] >= ScheduledDelay(k)
               /\ 2 * waits[k] <= 3 * ScheduledDelay(k)
          ELSE waits[k] = ScheduledDelay(k)

C24_Witness ==
    /\ r_pc = "done"
    /\ ~jitter
    /\ Len(history) = GeoRetries + 1
    /\ result.kind = "raise"
    /\ waits = <<GeoDelay, GeoDelay * GeoBackoffFactor,
                 GeoDelay * GeoBackoffFactor * GeoBackoffFactor>>

\* C25: after a failed re-attempt next_retry is the time of the attempt
\* plus 30 minutes when the resolver returned no data, plus 1 hour when it
\* raised ApiError, plus 15 minutes for any other exception, and is always
\* later than the time of the attempt.
C25_DelayByKind ==
    [][\A i \in QueuePositions :
          (ProcessStep(i) /\ FailedAttempt(w_done'))
              => /\ queue'[i].next_retry # None
                 /\ fromisoformat(queue'[i].next_retry[1]) > now'
                 /\ NoDataFailure(w_done')
                       => queue'[i].next_retry = Some(isoformat(now' + NoDataDelay))
                 /\ ApiErrorFailure(w_done')
                       => queue'[i].next_retry = Some(isoformat(now' + ApiErrorDelay))
                 /\ OtherFailure(w_done')
                       => queue'[i].next_retry
                              = Some(isoformat(now' + UnexpectedDelay))]_vars

C25_Witness ==
    /\ Len(queue) = 2
    /\ w_done.idx = 2
    /\ ApiErrorFailure(w_done)
    /\ queue[2].next_retry = Some(isoformat(now + ApiErrorDelay))
    /\ queue[1].next_retry = Some(isoformat(now + UnexpectedDelay))
    /\ queue[1].retry_count = 1

\* The resolution of the re-attempt itself failed: no data, or an error
ResolutionFailed(d) == d.resolved /\ (d.r = Return(None) \/ d.r.kind = "raise")

\* C29 (as stated): retry_count is incremented only when the resolution of
\* the re-attempt failed; a re-attempt whose resolution succeeded leaves
\* retry_count and next_retry as they were, also when update_geo_data
\* raises.
C29_Original ==
    [][\A i \in QueuePositions :
          ProcessStep(i)
              => /\ queue'[i].retry_count # queue[i].retry_count
                       => ResolutionFailed(w_done')
                 /\ SuccessfulReattempt(w_done')
                       => /\ queue'[i].retry_count = queue[i].retry_count
                          /\ queue'[i].next_retry = queue[i].next_retry]_vars

\* C29 (amended): retry_count is incremented, by 1, exactly when the
\* re-attempt failed, that is when its resolution failed or update_geo_data
\* raised; a re-attempt that resolved and was delivered, or had no owner to
\* deliver to, and an item skipped at the ceiling, keep retry_count and
\* next_retry as they were.
C29_CountsFailedAttempts ==
    [][\A i \in QueuePositions :
          ProcessStep(i)
              => LET failed == \/ ResolutionFailed(w_done')
                               \/ (SuccessfulReattempt(w_done')
                                      /\ w_done'.u.kind = "raise")
                 IN  /\ failed
                           => /\ queue'[i].retry_count = queue[i].retry_count + 1
                              /\ queue'[i].next_retry # queue[i].next_retry
                     /\ ~failed
                           => /\ queue'[i].retry_count = queue[i].retry_count
                              /\ queue'[i].next_retry = queue[i].next_retry]_vars

C29_Witness ==
    /\ w_done.idx = 1
    /\ SuccessfulReattempt(w_done)
    /\ w_done.updated # None
    /\ w_done.u.kind = "raise"
    /\ queue[1].retry_count = 1
    /\ queue[1].last_error = Some(Str(w_done.u.exc[1]))
    /\ queue[1].next_retry = Some(isoformat(now + UnexpectedDelay))

\* ------------------------------------------------------------------------
\* Properties of the poll loops and of shutdown (SpecLoops)
\* ------------------------------------------------------------------------
\* C23: shutdown_event stops the worker, waits for the worker task at most
\* 5 seconds and then ends without raising, whether the task ended in time
\* or not; after it the worker task is not running and worker_task is unset.
C23_BoundedShutdown ==
    [][/\ (shutdown.pc = "idle" /\ shutdown'.pc # "idle" /\ worker_task # None)
             => /\ ~running'
                /\ shutdown'.pc = "waiting"
                /\ shutdown'.task = worker_task
       /\ shutdown'.pc = "done"
             => /\ shutdown'.outcome = Return(None)
                /\ shutdown'.waited <= ShutdownTimeout
                /\ worker_task' = None
                /\ shutdown'.task # None
                      => ~Active(loops'[shutdown'.task[1]])]_vars

C23_Witness ==
    /\ shutdown.pc = "done"
    /\ shutdown.task # None
    /\ loops[shutdown.task[1]].pc = "cancelled"
    /\ shutdown.waited = ShutdownTimeout
    /\ shutdown.outcome = Return(None)

\* C27: whatever the sequence of start() and stop() calls, at most one
\* start() coroutine of the worker is alive at a time, and a coroutine that
\* was alive when stop() was called begins no further iteration.
C27_SingleLoop ==
    [][/\ Cardinality({i \in 1 .. Len(loops') : Looping(loops'[i])}) <= 1
       /\ \A i \in 1 .. Len(loops) :
             (loops[i].stopped /\ loops[i].pc = "sleeping")
                 => loops'[i].pc # "processing"]_vars

\* C28: an exception of process_pending_lookups does not end the loop: the
\* coroutine sleeps one polling interval, running stays as it was, and
\* when the sleep returns with running still set the next iteration begins;
\* a loop ends only with running unset or by cancellation.
C28_LoopResilience ==
    [][\A i \in 1 .. Len(loops) :
          /\ (loops[i].pc = "processing"
                 /\ loops'[i].pc \notin {"processing", "cancelled"}
                 /\ loops'[i].raised)
                => /\ loops'[i].pc = "sleeping"
                   /\ loops'[i].wait = PollingInterval
                   /\ running' = running
          /\ (loops[i].pc = "sleeping" /\ loops[i].raised
                 /\ loops'[i].pc \notin {"sleeping", "cancelled"})
                => IF running
                   THEN /\ loops'[i].pc = "processing"
                        /\ loops'[i].iterations = loops[i].iterations + 1
                   ELSE loops'[i].pc = "exited"
          /\ (loops[i].pc # "exited" /\ loops'[i].pc = "exited") => ~running]_vars

C28_Witness ==
    /\ Len(loops) = 1
    /\ running
    /\ loops[1].raised
    /\ loops[1].pc = "processing"
    /\ loops[1].iterations = 2
    /\ ~loops[1].stopped

\* ------------------------------------------------------------------------
\* Properties of create_item and update_item together (SpecItems)
\* ------------------------------------------------------------------------
\* C30: after any sequence of create_item and update_item calls, for every
\* item that no call still in progress holds, the stored latitude,
\* longitude and direction are all unset, or they are the data a lookup of
\* the item's current postcode gave, with the direction that of the stored
\* coordinates.
C30_GeoMatchesPostcode ==
    \A k \in 1 .. Len(items) :
        LET item == items[k]
        IN  \/ \E c \in 1 .. Len(i_pending) : i_pending[c].item.id = item.id
            \/ /\ item.latitude = None
               /\ item.longitude = None
               /\ item.direction_from_new_york = None
            \/ /\ item.latitude # None
               /\ item.longitude # None
               /\ item.direction_from_new_york # None
               /\ i_source[k] # None
               /\ i_source[k][1].postcode = item.postcode
               /\ item.latitude = Some(i_source[k][1].geo_data.latitude)
               /\ item.longitude = Some(i_source[k][1].geo_data.longitude)
               /\ item.direction_from_new_york
                      = Some(calculate_direction(item.latitude[1], item.longitude[1]))

====
